---- MODULE Spec2Model ----
(***************************************************************************)
(* A model of lvsc (src/src/main_lvsc.cpp): the capture loop of main, the  *)
(* SIGINT handler, and the IVFVPX9Writer that frames the packets of the    *)
(* VP9 encoder into an IVF container.                                      *)
(*                                                                         *)
(* The container is modelled byte for byte as the content of the stdio     *)
(* stream `outfile` together with its file position.  The encoder (libvpx) *)
(* is an external library: it is modelled as a queue of submitted frames   *)
(* that it may hold back up to Lag frames deep, and that a flush           *)
(* submission drains.  fwrite calls whose result the code does not check   *)
(* (the 32-byte header, the 12-byte frame header) are taken to succeed;    *)
(* the checked payload fwrite may fall short.  What has reached the disk   *)
(* may lag behind the stream until fflush, fclose or exit; the file is the *)
(* stream's content, which is what the disk holds after each of those.     *)
(***************************************************************************)
EXTENDS Integers, Sequences, FiniteSets, TLC

(* ---------------------------- bounds ----------------------------------- *)
MaxFrames == 11      \* live submissions per session (guard of ShotOk)
Lag == 2             \* deepest lookahead of the encoder
MaxPayload == 2      \* largest payload size of a packet, in bytes
VarSizeFrames == 2   \* packets with pts below this choose their size freely
MaxRecvs == 3        \* receives of one screenshot that bring data

(* ------------------------ program constants ---------------------------- *)
KEYFRAME_INTERVAL == 10
FPS_NUMERATOR == 1
FPS_DENOMINATOR == 5
VP9_FOURCC == 809062486          \* 0x30395056
VPX_EFLAG_FORCE_KF == 1
SIZE == 23592960                 \* 1024 * 768 * 3 * 10

\* Sizes of the image the writer was made for, channel values of the
\* pixels, what the planes hold before the first conversion, and arguments
\* clamp is tried on (the extremes of the three formulas among them)
ImageDims == {<<4, 2>>, <<3, 3>>, <<2, 3>>}
Levels == {0, 255}
MidGrey == <<128, 128, 128>>
PlaneFill == {0, 200}
ClampInputs == {-28432, -1, 0, 255, 256, 56228}

\* lengths virStreamRecv may return, besides all it was asked for
Chunks == {1, 65536, 11796480}

(* Dimensions a parsable "P6 w h maxval" header may report, and the values *)
(* the uninitialized locals pwidth/pheight may hold when sscanf matches    *)
(* nothing.                                                                *)
ParsedDims == {<<4, 2>>, <<3, 3>>}
GarbageDims == {<<0, 0>>, <<65540, 2>>}

VARIABLES
    capturing,       \* the sig_atomic_t flag
    pc,              \* position of main
    present,         \* video_stream holds a writer
    outfile,         \* "none" | "open" | "closed": the FILE* of the writer
    file,            \* content of the stream behind outfile, a byte sequence
    pos,             \* file position of outfile (0-based offset)
    tmpfile,         \* "none" | "stale" | "session": what is at tmp_file's path
    width, height,   \* fields of the writer
    frames_written,
    frames_encoded,
    pending,         \* encoder: indices of the frames submitted, not yet emitted
    pkts,            \* packets of the current submission not yet pulled
    got_pkts,        \* local of encode_frame
    flushing,        \* encode_frame runs with flush = true
    inDtor,          \* flush() was called by ~IVFVPX9Writer
    lastSub,         \* arguments of the latest vpx_codec_encode call
    emitted,         \* every frame packet the encoder has produced, in order
    wfail,           \* a payload fwrite fell short
    remuxed,         \* system(mkvmerge ...) has been called
    nFlush,          \* calls of flush() so far
    nClose,          \* calls of fclose(outfile) so far
    nWrites,         \* calls of fwrite on outfile so far
    shot,            \* "none" | "fail" | "ok": sign of take_screenshot's result
    parse,           \* "none" | "ok" | "bad": did sscanf match the P6 header
    pdims,           \* the locals <<pwidth, pheight>> while they are live
    cfg,             \* <<cfg.g_w, cfg.g_h>> handed to vpx_codec_enc_init
    liveAfterStop,   \* live submissions made while capturing was already 0
    tpc,             \* position inside take_screenshot
    base,            \* take_screenshot: base - buffer
    remaining_size,  \* take_screenshot: remaining_size
    bufTop,          \* end of the highest byte range written into buffer
    lastReq,         \* offset and length of the latest virStreamRecv request
    nRecv,           \* receives of the current screenshot that brought data
    ipc,             \* position around update_image
    rgb,             \* the pixels at buffer + chars: a sequence of <<r, g, b>>
    img,             \* vpx_image_t: d_w, d_h and the planes Y, U, V
    dst,             \* dst_pos at the end of each of update_image's loops
    probe            \* an argument of clamp and its result

vars == <<capturing, pc, present, outfile, file, pos, tmpfile, width, height,
          frames_written, frames_encoded, pending, pkts, got_pkts, flushing,
          inDtor, lastSub, emitted, wfail, remuxed, nFlush, nClose, nWrites,
          shot, parse, pdims, cfg, liveAfterStop,
          tpc, base, remaining_size, bufTop, lastReq, nRecv,
          ipc, rgb, img, dst, probe>>

writerVars == <<present, outfile, file, pos, width, height, frames_written,
                frames_encoded, nWrites, wfail>>
encVars == <<pending, pkts, got_pkts, flushing, lastSub, emitted>>
histVars == <<remuxed, nFlush, nClose>>
shotVars == <<tpc, base, remaining_size, bufTop, lastReq, nRecv>>
imgVars == <<ipc, rgb, img, dst, probe>>
loopVars == <<shot, parse, pdims>>
\* what the capture session of main leaves alone in every step but a few
otherVars == <<loopVars, cfg, liveAfterStop, shotVars, imgVars>>
\* the state of the capture session, left alone by the specifications of
\* take_screenshot and of update_image
sessionVars == <<capturing, pc, writerVars, encVars, histVars, tmpfile, inDtor,
                 parse, pdims, cfg, liveAfterStop>>

(* ------------------------- pure helpers -------------------------------- *)
\* (uint8_t)((val >> 8k) & 0xff) on a two's complement int
ByteOf(val, k) == (val \div (2 ^ (8 * k))) % 256

mem_put_le16(val) == <<ByteOf(val, 0), ByteOf(val, 1)>>

mem_put_le32(val) == <<ByteOf(val, 0), ByteOf(val, 1), ByteOf(val, 2), ByteOf(val, 3)>>

\* C++ remainder: the quotient truncates toward zero
CRem(a, b) == IF a >= 0 THEN a % b ELSE -((-a) % b)

\* fwrite of bs at offset p of a stream whose content is f: the bytes at
\* p+1..p+Len(bs) are replaced, the stream grows when the write runs past
\* its end (a hole left by a seek past the end reads as zeros)
WriteAt(f, p, bs) ==
    LET before == IF p <= Len(f) THEN SubSeq(f, 1, p)
                  ELSE f \o [i \in 1..(p - Len(f)) |-> 0]
        after == SubSeq(f, p + Len(bs) + 1, Len(f))
    IN  before \o bs \o after

\* the 32 bytes write_file_header builds
HeaderBytes(w, h, n) ==
    <<68, 75, 73, 70>> \o mem_put_le16(0) \o mem_put_le16(32)
    \o mem_put_le32(VP9_FOURCC) \o mem_put_le16(w) \o mem_put_le16(h)
    \o mem_put_le32(FPS_DENOMINATOR) \o mem_put_le32(FPS_NUMERATOR)
    \o mem_put_le32(n) \o mem_put_le32(0)

\* position after write_file_header: ftell, rewind, fwrite 32, seek back
HeaderPos_NoSeekBack(p) == 32

HeaderPos(p) == IF p >= 32 THEN p ELSE 32

write_file_header_NoRewind(f, p, w, h, n) ==
    [file |-> WriteAt(f, p, HeaderBytes(w, h, n)), pos |-> p + 32]

write_file_header(f, p, w, h, n) ==
    [file |-> WriteAt(f, 0, HeaderBytes(w, h, n)), pos |-> HeaderPos(p)]

\* the 12 bytes write_ivf_frame_header builds
\* pts is an int64_t: pts >> 32 is taken in two shifts of 16 to stay inside
\* 32-bit integer arithmetic, and the bytes of (int)(pts & 0xFFFFFFFF) are the
\* four low bytes of pts
Shr16(v) == v \div (2 ^ 16)

FrameHeaderBytes_ShortPts(pts, sz) ==
    mem_put_le32(sz) \o mem_put_le32(pts)

FrameHeaderBytes(pts, sz) ==
    mem_put_le32(sz) \o mem_put_le32(pts) \o mem_put_le32(Shr16(Shr16(pts)))

\* the payload of a packet: opaque bytes, told apart by the packet's pts
PayloadOf(pkt) == [i \in 1..pkt.sz |-> 100 + (pkt.pts % 100)]

\* frame_index and flags of encode_frame
FrameIndex(flush, encoded) == IF ~flush THEN encoded ELSE -1

KeyframeFlags_AfterIncrement(frame_index) ==
    IF CRem(frame_index + 1, KEYFRAME_INTERVAL) = 0 THEN VPX_EFLAG_FORCE_KF ELSE 0

KeyframeFlags(frame_index) ==
    IF CRem(frame_index, KEYFRAME_INTERVAL) = 0 THEN VPX_EFLAG_FORCE_KF ELSE 0

\* the packets the encoder hands out when it emits the frames idx (a
\* sequence of frame indices) with payload sizes szs; with stats, every
\* frame packet is followed by a packet of another kind
RECURSIVE MakePkts(_, _, _)
MakePkts(idx, szs, stats) ==
    IF idx = <<>> THEN <<>>
    ELSE <<[kind |-> "frame", sz |-> szs[1], pts |-> idx[1]]>>
         \o (IF stats THEN <<[kind |-> "other", sz |-> 0, pts |-> idx[1]]>> ELSE <<>>)
         \o MakePkts(Tail(idx), Tail(szs), stats)

SizesFor(idx) ==
    {s \in [1..Len(idx) -> 1..MaxPayload] :
        \A i \in 1..Len(idx) : idx[i] >= VarSizeFrames => s[i] = 1}

FramePkts(ps) == SelectSeq(ps, LAMBDA p : p.kind = "frame")

\* pkt->kind == VPX_CODEC_CX_FRAME_PKT
IsFramePkt_AnyKind(pkt) == TRUE

IsFramePkt(pkt) == pkt.kind = "frame"

\* how many frames the encoder may emit on a submission, q being its queue
\* after the submission
EmitCounts(flush, q) ==
    IF flush THEN (IF q = <<>> THEN {0} ELSE 1..Len(q))
    ELSE {k \in 0..Len(q) : Len(q) - k <= Lag}

Running == pc \notin {"exited", "crashed", "done"}

(* ------------------------------ Init ----------------------------------- *)
InitSession ==
    /\ capturing = 1
    /\ pc = "loop"
    /\ present = FALSE
    /\ outfile = "none"
    /\ file = <<>>
    /\ pos = 0
    /\ tmpfile \in {"none", "stale"}
    /\ width = 0
    /\ height = 0
    /\ frames_written = 0
    /\ frames_encoded = 0
    /\ pending = <<>>
    /\ pkts = <<>>
    /\ got_pkts = 0
    /\ flushing = FALSE
    /\ inDtor = FALSE
    /\ lastSub = [kind |-> "none", index |-> 0, flags |-> 0]
    /\ emitted = <<>>
    /\ wfail = FALSE
    /\ remuxed = FALSE
    /\ nFlush = 0
    /\ nClose = 0
    /\ nWrites = 0
    /\ shot = "none"
    /\ parse = "none"
    /\ pdims = <<0, 0>>
    /\ cfg = <<0, 0>>
    /\ liveAfterStop = 0

(* ----------------------------- actions --------------------------------- *)
\* signal_handler
Signal ==
    /\ Running
    /\ capturing' = 0
    /\ UNCHANGED <<pc, writerVars, encVars, histVars, tmpfile, inDtor, otherVars>>

\* while (capturing)
LoopCond_Forever(c) == TRUE

LoopCond(c) == c # 0

LoopTest ==
    /\ pc = "loop"
    /\ pc' = IF LoopCond(capturing) THEN "shot" ELSE "end"
    /\ UNCHANGED <<capturing, writerVars, encVars, histVars, tmpfile, inDtor, otherVars>>

\* where main goes on when take_screenshot returned a negative value
ShotFailTarget_FallThrough == "parse"

ShotFailTarget == "loop"

\* take_screenshot(...) < 0: continue
ShotFail ==
    /\ pc = "shot"
    /\ shot' = "fail"
    /\ pc' = ShotFailTarget
    /\ UNCHANGED <<capturing, writerVars, encVars, histVars, tmpfile, inDtor,
                   parse, pdims, cfg, liveAfterStop, shotVars, imgVars>>

\* take_screenshot succeeded
ShotOk ==
    /\ pc = "shot"
    /\ frames_encoded < MaxFrames
    /\ shot' = "ok"
    /\ pc' = "parse"
    /\ UNCHANGED <<capturing, writerVars, encVars, histVars, tmpfile, inDtor,
                   parse, pdims, cfg, liveAfterStop, shotVars, imgVars>>

\* if (!video_stream): is a writer to be made from the parsed dimensions
NeedWriter_OnResize(p, d, w, h) == ~p \/ d # <<w, h>>

NeedWriter(p, d, w, h) == ~p

\* sscanf, whose result main does not look at: when the buffer holds no
\* parsable header, pwidth and pheight keep whatever they held.  Then
\* make_unique<IVFVPX9Writer> when there is no writer yet; the constructor
\* opens the file with "w", may fail to set up the codec (fatal), and writes
\* the first header
ParseAndInit ==
    /\ pc = "parse"
    /\ \E ok \in BOOLEAN :
       \E d \in (IF ok THEN ParsedDims ELSE ParsedDims \cup GarbageDims) :
         /\ parse' = IF ok THEN "ok" ELSE "bad"
         /\ pdims' = d
         /\ IF ~NeedWriter(present, d, width, height)
            THEN /\ pc' = "update"
                 /\ UNCHANGED <<writerVars, tmpfile, cfg>>
            ELSE \/ /\ pc' = "exited"
                    /\ tmpfile' = "session"
                    /\ outfile' = "open"
                    /\ width' = d[1]
                    /\ height' = d[2]
                    /\ cfg' = d
                    /\ UNCHANGED <<present, file, pos, frames_written,
                                   frames_encoded, nWrites, wfail>>
                 \/ /\ pc' = "update"
                    /\ tmpfile' = "session"
                    /\ outfile' = "open"
                    /\ present' = TRUE
                    /\ width' = d[1]
                    /\ height' = d[2]
                    /\ cfg' = d
                    /\ frames_written' = 0
                    /\ frames_encoded' = 0
                    /\ LET r == write_file_header(<<>>, 0, d[1], d[2], 0)
                       IN  file' = r.file /\ pos' = r.pos
                    /\ nWrites' = nWrites + 1
                    /\ UNCHANGED wfail
    /\ UNCHANGED <<capturing, encVars, histVars, inDtor, shot, liveAfterStop,
                   shotVars, imgVars>>

\* video_stream->update_image(buffer + chars): touches the image planes
\* only (UpdatePlanes below is what it does to them); it is the last use of
\* a local that sscanf sets
UpdateImage ==
    /\ pc = "update"
    /\ pc' = "encode"
    /\ parse' = "none"
    /\ pdims' = <<0, 0>>
    /\ UNCHANGED <<capturing, writerVars, encVars, histVars, tmpfile, inDtor,
                   shot, cfg, liveAfterStop, shotVars, imgVars>>

\* encode_frame up to and including vpx_codec_encode
Submit(flush) ==
    LET frame_index == FrameIndex(flush, frames_encoded)
        flags == KeyframeFlags(frame_index)
        q == IF flush THEN pending ELSE Append(pending, frame_index)
    IN  /\ frames_encoded' = IF ~flush THEN frames_encoded + 1 ELSE frames_encoded
        /\ lastSub' = [kind |-> IF flush THEN "flush" ELSE "live",
                       index |-> frame_index, flags |-> flags]
        /\ flushing' = flush
        /\ got_pkts' = 0
        /\ liveAfterStop' = IF ~flush /\ capturing = 0 THEN liveAfterStop + 1
                            ELSE liveAfterStop
        /\ \/ /\ pc' = "exited"          \* res != VPX_CODEC_OK: fatal
              /\ UNCHANGED <<pending, pkts, emitted>>
           \/ \E k \in EmitCounts(flush, q) :
              \E szs \in SizesFor(SubSeq(q, 1, k)) :
              \E stats \in BOOLEAN :
                LET out == MakePkts(SubSeq(q, 1, k), szs, stats)
                IN  /\ pending' = SubSeq(q, k + 1, Len(q))
                    /\ pkts' = out
                    /\ emitted' = emitted \o FramePkts(out)
                    /\ pc' = "drain"
        /\ UNCHANGED <<capturing, present, outfile, file, pos, width, height,
                       frames_written, nWrites, wfail, histVars, tmpfile, inDtor,
                       loopVars, cfg, shotVars, imgVars>>

\* video_stream->encode_frame()
EncodeLive ==
    /\ pc = "encode"
    /\ Submit(FALSE)

\* vpx_video_writer_write_frame: frames_written after the payload fwrite
CountAfterWrite_Always(n, ok) == n + 1

CountAfterWrite(n, ok) == IF ok THEN n + 1 ELSE n

\* one turn of while ((pkt = vpx_codec_get_cx_data(...)) != NULL)
DrainPacket ==
    /\ pc = "drain"
    /\ pkts # <<>>
    /\ LET pkt == Head(pkts) IN
       /\ pkts' = Tail(pkts)
       /\ got_pkts' = 1
       /\ IF IsFramePkt(pkt)
          THEN LET hdr == FrameHeaderBytes(pkt.pts, pkt.sz)
                   f1 == WriteAt(file, pos, hdr)
                   p1 == pos + Len(hdr)
               IN  \/ /\ file' = WriteAt(f1, p1, PayloadOf(pkt))
                      /\ pos' = p1 + pkt.sz
                      /\ frames_written' = CountAfterWrite(frames_written, TRUE)
                      /\ pc' = "drain"
                      /\ UNCHANGED wfail
                   \/ \E j \in 0..(pkt.sz - 1) :   \* short fwrite: fatal
                      /\ file' = WriteAt(f1, p1, SubSeq(PayloadOf(pkt), 1, j))
                      /\ pos' = p1 + j
                      /\ wfail' = TRUE
                      /\ pc' = "exited"
                      /\ frames_written' = CountAfterWrite(frames_written, FALSE)
          ELSE /\ pc' = "drain"
               /\ UNCHANGED <<file, pos, frames_written, wfail>>
       /\ nWrites' = IF IsFramePkt(pkt) THEN nWrites + 2 ELSE nWrites
    /\ UNCHANGED <<capturing, present, outfile, width, height, frames_encoded,
                   pending, flushing, lastSub, emitted, histVars, tmpfile, inDtor, otherVars>>

\* the flush loop's test: while (encode_frame(true))
FlushAgain_Always(got) == TRUE

FlushAgain(got) == got # 0

\* return got_pkts, to the capture loop or to the loop of flush()
DrainDone ==
    /\ pc = "drain"
    /\ pkts = <<>>
    /\ pc' = IF ~flushing THEN "loop"
             ELSE IF FlushAgain(got_pkts) THEN "fsubmit" ELSE "fflush"
    /\ UNCHANGED <<capturing, writerVars, encVars, histVars, tmpfile, inDtor, otherVars>>

\* output("Ending capture...", video_stream->frames_encoded): with no
\* writer this reads through a null pointer, which may stop the process or
\* yield any value and go on
EndCapture ==
    /\ pc = "end"
    /\ \/ pc' = "flushtest"
       \/ ~present /\ pc' = "crashed"
    /\ UNCHANGED <<capturing, writerVars, encVars, histVars, tmpfile, inDtor, otherVars>>

\* if (video_stream) video_stream->flush();
FlushTest ==
    /\ pc = "flushtest"
    /\ pc' = IF present THEN "fhdr" ELSE "remux"
    /\ nFlush' = IF present THEN nFlush + 1 ELSE nFlush
    /\ UNCHANGED <<capturing, writerVars, encVars, remuxed, nClose, tmpfile, inDtor, otherVars>>

\* flush(): write_file_header()
FlushHeader ==
    /\ pc = "fhdr"
    /\ LET r == write_file_header(file, pos, width, height, frames_written)
       IN  file' = r.file /\ pos' = r.pos
    /\ nWrites' = nWrites + 1
    /\ pc' = "fsubmit"
    /\ UNCHANGED <<capturing, present, outfile, width, height, frames_written,
                   frames_encoded, wfail, encVars, histVars, tmpfile, inDtor, otherVars>>

\* flush(): encode_frame(true)
EncodeFlush ==
    /\ pc = "fsubmit"
    /\ Submit(TRUE)

\* flush(): fflush(outfile), and the return to the caller
FlushReturn ==
    /\ pc = "fflush"
    /\ pc' = IF inDtor THEN "fclose" ELSE "remux"
    /\ UNCHANGED <<capturing, writerVars, encVars, histVars, tmpfile, inDtor, otherVars>>

\* system("mkvmerge -o <output_file> -w <tmp_file>"): fails when there is
\* nothing at tmp_file, may fail otherwise; a failure is fatal
Remux ==
    /\ pc = "remux"
    /\ remuxed' = TRUE
    /\ \/ pc' = "exited"
       \/ tmpfile # "none" /\ pc' = "unlink"
    /\ UNCHANGED <<capturing, writerVars, encVars, nFlush, nClose, tmpfile, inDtor, otherVars>>

\* unlink(tmp_file)
Unlink ==
    /\ pc = "unlink"
    /\ tmpfile' = "none"
    /\ pc' = "ret"
    /\ UNCHANGED <<capturing, writerVars, encVars, histVars, inDtor, otherVars>>

\* return 0: video_stream goes out of scope; ~IVFVPX9Writer calls flush()
Return ==
    /\ pc = "ret"
    /\ IF present
       THEN /\ pc' = "fhdr"
            /\ inDtor' = TRUE
            /\ nFlush' = nFlush + 1
       ELSE /\ pc' = "done"
            /\ UNCHANGED <<inDtor, nFlush>>
    /\ UNCHANGED <<capturing, writerVars, encVars, remuxed, nClose, tmpfile, otherVars>>

\* ~IVFVPX9Writer: fclose(outfile), vpx_img_free, vpx_codec_destroy
DtorClose ==
    /\ pc = "fclose"
    /\ outfile' = "closed"
    /\ nClose' = nClose + 1
    /\ pc' = "done"
    /\ UNCHANGED <<capturing, present, file, pos, width, height, frames_written,
                   frames_encoded, nWrites, wfail, encVars, remuxed, nFlush,
                   tmpfile, inDtor, otherVars>>

(* --------------------------- update_image ------------------------------ *)
\* signed division of C++: the quotient truncates toward zero
CDiv_Floor(a, b) == a \div b

CDiv(a, b) == IF a >= 0 THEN a \div b ELSE -((-a) \div b)

\* max(min(x, 255), 0); the conversion to uint8_t keeps such a value
clamp_NoLowerBound(x) == IF x < 255 THEN x ELSE 255

clamp(x) ==
    LET m == IF x < 255 THEN x ELSE 255
    IN  IF m > 0 THEN m ELSE 0

YOf(p) == clamp(CDiv(66 * p[1] + 129 * p[2] + 25 * p[3] + 128, 256) + 16)

UOf(p) == clamp(CDiv(-38 * p[1] - 74 * p[2] + 112 * p[3] + 128, 256) + 128)

VOf(p) == clamp(CDiv(112 * p[1] - 94 * p[2] - 18 * p[3] + 128, 256) + 128)

\* turns of for (x = 0; x < n; x += 2)
EvenCount_SkipDangling(n) == n \div 2

EvenCount(n) == (n + 1) \div 2

\* the pixel at column x, row y of a buffer of width w
PixelAt(buf, w, x, y) == buf[y * w + x + 1]

\* the samples the first loop stores, in the order of dst_pos
LumaSamples(buf, w, h) == [k \in 1..(w * h) |-> YOf(buf[k])]

\* the pixels the second and third loops read, in the order of dst_pos
ChromaPixels(buf, w, h) ==
    LET cw == EvenCount(w)
        ch == EvenCount(h)
    IN  [k \in 1..(cw * ch) |->
            PixelAt(buf, w, 2 * ((k - 1) % cw), 2 * ((k - 1) \div cw))]

\* dest[dst_pos++] = ... from dst_pos = 0 on: the samples replace the head
\* of the plane, what lies behind them stays
StorePlane(old, samples) == samples \o SubSeq(old, Len(samples) + 1, Len(old))

\* the images a capture may deliver: two colours alternating pixel by pixel
Colors == (Levels \X Levels \X Levels) \cup {MidGrey}

Images(w, h) ==
    {[k \in 1..(w * h) |-> IF k % 2 = 1 THEN c1 ELSE c2] : c1 \in Colors, c2 \in Colors}

\* vpx_img_alloc(&img, VPX_IMG_FMT_I420, width, height, 1): a luma plane of
\* width x height and two chroma planes of ceil(width/2) x ceil(height/2),
\* their content not initialized
InitImage ==
    /\ ipc = "load"
    /\ rgb = <<>>
    /\ dst = [Y |-> 0, U |-> 0, V |-> 0]
    /\ probe = [x |-> 0, y |-> 0]
    /\ \E d \in ImageDims : \E fill \in PlaneFill :
         LET csize == ((d[1] + 1) \div 2) * ((d[2] + 1) \div 2)
         IN  img = [w |-> d[1], h |-> d[2],
                    Y |-> [k \in 1..(d[1] * d[2]) |-> fill],
                    U |-> [k \in 1..csize |-> fill],
                    V |-> [k \in 1..csize |-> fill]]

\* a screenshot of the writer's dimensions is in the buffer
LoadFrame ==
    /\ ipc = "load"
    /\ rgb' \in Images(img.w, img.h)
    /\ ipc' = "convert"
    /\ UNCHANGED <<img, dst, probe, sessionVars, shot, shotVars>>

\* update_image(buffer + chars)
UpdatePlanes ==
    /\ ipc = "convert"
    /\ LET ys == LumaSamples(rgb, img.w, img.h)
           cp == ChromaPixels(rgb, img.w, img.h)
           us == [k \in 1..Len(cp) |-> UOf(cp[k])]
           vs == [k \in 1..Len(cp) |-> VOf(cp[k])]
       IN  /\ img' = [img EXCEPT !.Y = StorePlane(@, ys),
                                 !.U = StorePlane(@, us),
                                 !.V = StorePlane(@, vs)]
           /\ dst' = [Y |-> Len(ys), U |-> Len(us), V |-> Len(vs)]
    /\ ipc' = "load"
    /\ UNCHANGED <<rgb, probe, sessionVars, shot, shotVars>>

\* clamp applied to one argument
ClampProbe ==
    /\ \E x \in ClampInputs : probe' = [x |-> x, y |-> clamp(x)]
    /\ UNCHANGED <<ipc, rgb, img, dst, sessionVars, shot, shotVars>>

NextImage == LoadFrame \/ UpdatePlanes \/ ClampProbe

(* ------------------------- take_screenshot ----------------------------- *)
InitShot ==
    /\ tpc = "call"
    /\ base = 0
    /\ remaining_size = SIZE
    /\ bufTop = 0
    /\ lastReq = [made |-> FALSE, at |-> 0, len |-> 0]
    /\ nRecv = 0

\* remaining_size -= res
RemainingAfter_Unchanged(rem, res) == rem

RemainingAfter(rem, res) == rem - res

\* virDomainScreenshot: no mimetype, return -1; else base = buffer,
\* remaining_size = SIZE
TsCall ==
    /\ tpc = "call"
    /\ \/ /\ tpc' = "ret"
          /\ shot' = "fail"
          /\ UNCHANGED <<base, remaining_size, bufTop, lastReq, nRecv>>
       \/ /\ tpc' = "recv"
          /\ shot' = "none"
          /\ base' = 0
          /\ remaining_size' = SIZE
          /\ bufTop' = 0
          /\ nRecv' = 0
          /\ lastReq' = [made |-> FALSE, at |-> 0, len |-> 0]
    /\ UNCHANGED <<sessionVars, imgVars>>

\* virStreamRecv(stream, base, remaining_size) returned res > 0, at most
\* what it was asked for: res bytes are in the buffer from base on
TsRecvData ==
    /\ tpc = "recv"
    /\ nRecv < MaxRecvs
    /\ \E res \in {c \in Chunks \cup {remaining_size} : c >= 1 /\ c <= remaining_size} :
         /\ lastReq' = [made |-> TRUE, at |-> base, len |-> remaining_size]
         /\ bufTop' = IF base + res > bufTop THEN base + res ELSE bufTop
         /\ base' = base + res
         /\ remaining_size' = RemainingAfter(remaining_size, res)
    /\ nRecv' = nRecv + 1
    /\ UNCHANGED <<tpc, shot, sessionVars, imgVars>>

\* res < 0: virStreamAbort, return -1;  res == 0: virStreamFinish,
\* return base - buffer
TsRecvEnd ==
    /\ tpc = "recv"
    /\ lastReq' = [made |-> TRUE, at |-> base, len |-> remaining_size]
    /\ shot' \in {"fail", "ok"}
    /\ tpc' = "ret"
    /\ UNCHANGED <<base, remaining_size, bufTop, nRecv, sessionVars, imgVars>>

\* back in main, which calls take_screenshot again for the next frame
TsReturn ==
    /\ tpc = "ret"
    /\ tpc' = "call"
    /\ UNCHANGED <<shot, base, remaining_size, bufTop, lastReq, nRecv,
                   sessionVars, imgVars>>

NextShot == TsCall \/ TsRecvData \/ TsRecvEnd \/ TsReturn

MainStep ==
    \/ LoopTest \/ ShotFail \/ ShotOk \/ ParseAndInit \/ UpdateImage
    \/ EncodeLive \/ DrainPacket \/ DrainDone \/ EndCapture \/ FlushTest
    \/ FlushHeader \/ EncodeFlush \/ FlushReturn \/ Remux \/ Unlink
    \/ Return \/ DtorClose

Next ==
    \/ Signal
    \/ LoopTest \/ ShotFail \/ ShotOk \/ ParseAndInit \/ UpdateImage
    \/ EncodeLive \/ DrainPacket \/ DrainDone \/ EndCapture \/ FlushTest
    \/ FlushHeader \/ EncodeFlush \/ FlushReturn \/ Remux \/ Unlink
    \/ Return \/ DtorClose

\* img(vpx_image_t()): no image allocated before the first frame
NoImage ==
    /\ ipc = "load"
    /\ rgb = <<>>
    /\ dst = [Y |-> 0, U |-> 0, V |-> 0]
    /\ probe = [x |-> 0, y |-> 0]
    /\ img = [w |-> 0, h |-> 0, Y |-> <<>>, U |-> <<>>, V |-> <<>>]

Init == InitSession /\ InitShot /\ NoImage

Spec == Init /\ [][Next]_vars

\* take_screenshot called over and over
SpecShot == Init /\ [][NextShot]_vars

\* update_image called on one frame after another, for a writer of any of
\* the dimensions
InitWriter == InitSession /\ InitShot /\ InitImage

SpecImage == InitWriter /\ [][NextImage]_vars

\* main runs on as long as it can; the signal may never come
FairSpec == Spec /\ WF_vars(MainStep)

(* ------------------- reading the container back ------------------------ *)
\* the little-endian 32-bit value at offset off of f
Rd32(f, off) ==
    f[off + 1] + 256 * f[off + 2] + 65536 * f[off + 3] + 16777216 * f[off + 4]

\* the frame-count field of the StreamHeader on file
HeaderCount == Rd32(file, 24)

\* the complete FrameRecords of f from offset off on, as a reader walks them
RECURSIVE Records(_, _)
Records(f, off) ==
    IF off + 12 > Len(f) THEN <<>>
    ELSE LET sz == Rd32(f, off) IN
         IF off + 12 + sz > Len(f) THEN <<>>
         ELSE <<[sz |-> sz, ptsLo |-> Rd32(f, off + 4), ptsHi |-> Rd32(f, off + 8),
                 payload |-> SubSeq(f, off + 13, off + 12 + sz)]>>
              \o Records(f, off + 12 + sz)

\* what a packet looks like once read back
RecOf(pkt) == [sz |-> pkt.sz, ptsLo |-> pkt.pts, ptsHi |-> 0, payload |-> PayloadOf(pkt)]

RecsOf(ps) == [i \in 1..Len(ps) |-> RecOf(ps[i])]

\* offset of the i-th record when the records before it have the sizes of ps
RECURSIVE OffsetOf(_, _)
OffsetOf(ps, i) == IF i = 1 THEN 32 ELSE OffsetOf(ps, i - 1) + 12 + ps[i - 1].sz

PostLoop == {"end", "flushtest", "remux", "unlink", "ret", "done", "crashed", "exited"}

(* ------------------------------ claims --------------------------------- *)

\* C1: after every frame append the frame-count field of the header on
\* file equals the number of FrameRecords in the file.
C1_HeaderCountMatchesRecords ==
    present => HeaderCount = Len(Records(file, 32))

\* C2: when the container is handed to the remux tool after a session of N
\* live frames, its header frame-count field equals N.
C2_HeaderCountAtRemux ==
    (pc = "remux" /\ present) => HeaderCount = frames_encoded

\* C3: at shutdown the encoder is drained, then the header is rewritten
\* with the final count and the file closed, and only then the remux tool
\* is invoked; nothing is written to the container afterwards.
C3_FinalizeBeforeRemux ==
    [][ /\ (remuxed' /\ present') => (outfile' = "closed" /\ HeaderCount' = frames_written')
        /\ remuxed => nWrites' = nWrites ]_vars

\* C4: a session stopped before any writer was created ends fatally: no
\* container is created, no flush is attempted and the remux tool is not
\* invoked.
C4_NoWriterIsFatal ==
    (outfile = "none" /\ pc \in PostLoop) =>
        /\ ~remuxed
        /\ nFlush = 0
        /\ tmpfile # "session"
        /\ pc \notin {"unlink", "ret", "done"}

\* C5: the force-keyframe flag is set on exactly the live submissions whose
\* frame index is 0, 10, 20, ...; a flush submission carries index -1 and
\* never the flag.
C5_KeyframeCadence ==
    lastSub.kind # "none" =>
        /\ (lastSub.flags = VPX_EFLAG_FORCE_KF) <=>
              (lastSub.kind = "live" /\ \E k \in 0..MaxFrames : lastSub.index = 10 * k)
        /\ lastSub.flags \in {0, VPX_EFLAG_FORCE_KF}
        /\ lastSub.kind = "flush" => lastSub.index = -1
        /\ lastSub.kind = "live" => lastSub.index = frames_encoded - 1

C5_Witness ==
    /\ lastSub.kind = "live"
    /\ lastSub.index = 10
    /\ lastSub.flags = VPX_EFLAG_FORCE_KF

\* C6: once flush() has started, its loop ends: flush() returns with every
\* submitted frame emitted and written as a record (or the process has left
\* through fatal() on an encode or write error).
C6_FlushTerminates ==
    (pc = "fhdr") ~>
        \/ /\ pc \in {"remux", "fclose"}
           /\ pending = <<>> /\ pkts = <<>>
           /\ lastSub.kind = "flush" /\ got_pkts = 0
           /\ Len(Records(file, 32)) = frames_encoded
        \/ pc = "exited"

\* a flush that had to drain packets has returned
C6_Witness ==
    /\ pc = "remux"
    /\ present
    /\ HeaderCount < frames_written
    /\ pending = <<>>

\* the file is the header followed by the records of the packets appended
\* so far, each at the offset its predecessors' sizes give
C7_Layout ==
    (present /\ ~wfail) =>
        /\ frames_written <= Len(emitted)
        /\ Len(file) = OffsetOf(emitted, frames_written + 1)
        /\ \A i \in 1..frames_written :
              LET off == OffsetOf(emitted, i) IN
              /\ Rd32(file, off) = emitted[i].sz
              /\ Rd32(file, off + 4) = emitted[i].pts
              /\ Rd32(file, off + 8) = 0
              /\ SubSeq(file, off + 13, off + 12 + emitted[i].sz) = PayloadOf(emitted[i])

\* C7: after successful appends with payload sizes s_1..s_n the file is
\* 32 + sum(12 + s_i) bytes long, the i-th record starts at offset
\* 32 + sum over j < i of (12 + s_j), and no byte of a record ever changes.
C7_AppendOnly ==
    []C7_Layout /\
    [][\A i \in 33..Len(file) : i <= Len(file') /\ file'[i] = file[i]]_vars

C7_Witness ==
    /\ ~wfail
    /\ frames_written >= 3
    /\ emitted[1].sz # emitted[2].sz
    /\ nFlush >= 1
    /\ pc = "fsubmit"

\* C8: a header rewrite changes no byte of the file but the four of the
\* frame-count field at offset 24, and leaves the position at end of file
\* (the constructor's first write leaves it at 32, the end of the header).
C8_HeaderRewriteFrame ==
    [][ /\ (pc = "fhdr" /\ pc' = "fsubmit") =>
             /\ Len(file') = Len(file)
             /\ \A i \in 1..Len(file) : i \notin 25..28 => file'[i] = file[i]
             /\ pos' = Len(file')
             /\ HeaderCount' = frames_written
        /\ (~present /\ present') =>
             /\ Len(file') = 32
             /\ pos' = 32
             /\ HeaderCount' = 0 ]_vars

\* a rewrite that changed the count with records already on file
C8_Witness ==
    /\ pc = "fsubmit"
    /\ frames_written >= 2
    /\ HeaderCount = frames_written
    /\ pos = Len(file)
    /\ Len(file) > 32

\* C9: a session that created a writer finalizes the container exactly
\* once on every path by which it ends: one flush, one close.
C9_FinalizedExactlyOnce ==
    (present /\ pc \in {"done", "exited"}) => (nFlush = 1 /\ nClose = 1)

\* C10: the records of the container are, in order and each once, the
\* frame packets the encoder emitted, with their sizes and timestamps.
C10_RecordsAreEmittedPackets ==
    /\ frames_written = Len(Records(file, 32))
    /\ ~wfail => Records(file, 32) \o RecsOf(FramePkts(pkts)) = RecsOf(emitted)
    /\ wfail => Records(file, 32) = RecsOf(SubSeq(emitted, 1, frames_written))

C10_Witness ==
    /\ pc = "done"
    /\ Len(emitted) >= 3
    /\ HeaderCount = 3
    /\ Records(file, 32) = RecsOf(emitted)

(* ----------------------- claims C11 to C20 ----------------------------- *)
\* the little-endian 16-bit value at offset off of f
Rd16(f, off) == f[off + 1] + 256 * f[off + 2]

\* update_image has run on the frame in rgb
Converted == ipc = "load" /\ rgb # <<>>

\* a 4x2 frame whose pixels are all (255, 0, 0) has been converted
Red4x2 ==
    /\ Converted
    /\ img.w = 4 /\ img.h = 2
    /\ \A k \in 1..8 : rgb[k] = <<255, 0, 0>>

\* C11: a buffer without a parsable P6 header ends the session at the
\* parse step; no writer or encoder configuration is made from unparsed
\* values and the frame goes no further.
C11_UnparsableIsFatal ==
    [][(pc = "parse" /\ parse' = "bad") =>
          /\ pc' = "exited"
          /\ present' = present
          /\ outfile' = outfile
          /\ cfg' = cfg]_vars

\* C12: a failed screenshot leaves frame index, frames written, writer and
\* container as they were and sends the loop back to its test of the stop
\* flag; the session goes on.
C12_CaptureFailureSwallowed ==
    [][(pc = "shot" /\ pc' # pc /\ shot' = "fail") =>
          /\ pc' = "loop"
          /\ UNCHANGED <<frames_encoded, frames_written, present, outfile, file,
                         pos, tmpfile, width, height, pending, emitted, nWrites,
                         remuxed, nFlush, nClose>>]_vars

\* a failure swallowed in the middle of a session
C12_Witness ==
    /\ pc = "loop"
    /\ shot = "fail"
    /\ capturing = 1
    /\ present
    /\ frames_written >= 1

\* C13 as stated: a 4x2 pure red frame gives luma 82, U 76 and V 238.
C13_PureRedAsStated ==
    Red4x2 =>
        /\ img.Y = <<82, 82, 82, 82, 82, 82, 82, 82>>
        /\ img.U = <<76, 76>>
        /\ img.V = <<238, 238>>

\* C13: a 4x2 pure red frame gives 82 in all 8 luma samples, 91 in both
\* samples of the U plane and 240 in both samples of the V plane.
C13_PureRed ==
    Red4x2 =>
        /\ img.Y = <<82, 82, 82, 82, 82, 82, 82, 82>>
        /\ img.U = <<91, 91>>
        /\ img.V = <<240, 240>>
        /\ dst = [Y |-> 8, U |-> 2, V |-> 2]

C13_Witness == Red4x2 /\ img.U[2] = 91

\* C14: every byte of the three planes is in 0..255 after any sequence of
\* conversions, and so is what clamp returns for any argument.
C14_PlanesInByteRange ==
    /\ \A k \in 1..Len(img.Y) : img.Y[k] \in 0..255
    /\ \A k \in 1..Len(img.U) : img.U[k] \in 0..255
    /\ \A k \in 1..Len(img.V) : img.V[k] \in 0..255
    /\ probe.y \in 0..255

\* white and black pixels converted, clamp tried below its range
C14_Witness ==
    /\ Converted
    /\ img.Y[1] = 235
    /\ img.Y[2] = 16
    /\ probe.x < 0
    /\ probe.y = 0

\* C15: while one screenshot is received, no byte is written past the
\* buffer's capacity: each receive is asked for the capacity minus what has
\* been received, starting right after it.
C15_ReceiveWithinCapacity ==
    /\ bufTop <= SIZE
    /\ bufTop = base
    /\ base + remaining_size = SIZE
    /\ lastReq.made =>
          /\ lastReq.at + lastReq.len = SIZE
          /\ lastReq.at <= base

\* the buffer filled to the last byte by several receives
C15_Witness ==
    /\ bufTop = SIZE
    /\ remaining_size = 0
    /\ nRecv >= 2
    /\ tpc = "ret"

\* C16: the handler only clears the flag; the loop leaves only at its test,
\* with the iteration's packets written as whole records; at most one live
\* frame is submitted after the signal and none once the loop has left.
C16_StopIsCooperative ==
    [][ /\ (capturing' # capturing) =>
             /\ capturing' = 0
             /\ UNCHANGED <<pc, writerVars, encVars, histVars, tmpfile, inDtor,
                            otherVars>>
        /\ (pc' = "end" /\ pc # "end") =>
             /\ pc = "loop" /\ capturing = 0
             /\ pkts' = <<>>
             /\ present' => Len(Records(file', 32)) = frames_written'
             /\ present' => Len(file') = OffsetOf(emitted', frames_written' + 1)
        /\ liveAfterStop' <= 1
        /\ (pc \in PostLoop \cup {"fhdr", "fsubmit", "fflush", "fclose"}
               \/ (pc = "drain" /\ flushing))
             => frames_encoded' = frames_encoded ]_vars

\* the signal came during an iteration, whose frame was still written
C16_Witness ==
    /\ pc = "end"
    /\ liveAfterStop = 1
    /\ lastSub.kind = "live"
    /\ frames_written = frames_encoded
    /\ frames_written >= 2

\* the header's width and height fields and the encoder configuration are
\* those of the writer
C17_DimsOfWriter ==
    present =>
        /\ cfg = <<width, height>>
        /\ Rd16(file, 12) = width % 65536
        /\ Rd16(file, 14) = height % 65536

\* C17: the writer is made at most once, from the dimensions of the first
\* frame, and never again: header and encoder keep those dimensions
\* whatever later frames report.
C17_WriterCreatedOnce ==
    []C17_DimsOfWriter /\
    [][ /\ (~present /\ present') => (<<width', height'>> = pdims' /\ nWrites' = 1)
        /\ present => (present' /\ width' = width /\ height' = height /\ cfg' = cfg
                       /\ outfile' # "none" /\ Len(file') >= Len(file)) ]_vars

\* a later frame reports other dimensions than the writer's
C17_Witness ==
    /\ present
    /\ pc = "update"
    /\ parse = "ok"
    /\ pdims # <<width, height>>
    /\ frames_encoded >= 1
    /\ Rd16(file, 12) = width

\* C18: the flush of the teardown, coming after the explicit flush has
\* drained the encoder, appends no record, changes no byte but the header's
\* frame-count field, and the file is closed once, while it is open.
C18_SecondFlushIdempotent ==
    [][ /\ (inDtor /\ inDtor') =>
             /\ Records(file', 32) = Records(file, 32)
             /\ Len(file') = Len(file)
             /\ \A i \in 1..Len(file) : i \notin 25..28 => file'[i] = file[i]
             /\ frames_written' = frames_written
             /\ pending' = <<>> /\ pkts' = <<>>
        /\ (nClose' # nClose) => (outfile = "open" /\ nClose = 0 /\ inDtor) ]_vars

C18_Witness ==
    /\ pc = "done"
    /\ nFlush = 2
    /\ nClose = 1
    /\ frames_written >= 2
    /\ HeaderCount = frames_written

\* C19 as stated: with an odd width or height fewer than
\* ceil(width/2) * ceil(height/2) samples are written to U and to V.
C19_OddLeavesGap ==
    (Converted /\ (img.w % 2 = 1 \/ img.h % 2 = 1)) =>
        /\ dst.U < ((img.w + 1) \div 2) * ((img.h + 1) \div 2)
        /\ dst.V < ((img.w + 1) \div 2) * ((img.h + 1) \div 2)

\* C19: with an odd width or height too, exactly
\* ceil(width/2) * ceil(height/2) samples are written to U and to V, the
\* last column and row being sampled at their even coordinate; no chroma
\* entry keeps its previous content.
C19_OddFullySampled ==
    Converted =>
        LET cw == (img.w + 1) \div 2
            ch == (img.h + 1) \div 2
        IN  /\ dst.U = cw * ch /\ dst.U = Len(img.U)
            /\ dst.V = cw * ch /\ dst.V = Len(img.V)
            /\ \A k \in 1..(cw * ch) :
                  LET x == 2 * ((k - 1) % cw)
                      y == 2 * ((k - 1) \div cw)
                  IN  /\ x < img.w /\ y < img.h
                      /\ img.U[k] = UOf(rgb[y * img.w + x + 1])
                      /\ img.V[k] = VOf(rgb[y * img.w + x + 1])

\* a 3x3 frame: the sample of column 2, row 2 is the fourth of the plane
C19_Witness ==
    /\ Converted
    /\ img.w = 3 /\ img.h = 3
    /\ dst.U = 4
    /\ rgb[9] = <<0, 0, 255>>
    /\ img.U[4] = 240

\* the header never says more than the file holds, and frames_written is
\* the number of complete records
C20_CountsAgree ==
    present =>
        /\ HeaderCount <= Len(Records(file, 32))
        /\ frames_written = Len(Records(file, 32))
        /\ HeaderCount <= frames_written

\* C20: in every state the header's frame count is at most the number of
\* complete records, frames_written is that number, and a payload write
\* that falls short leaves frames_written as it was.
C20_HeaderNeverOverReports ==
    []C20_CountsAgree /\
    [][(wfail' /\ ~wfail) => (frames_written' = frames_written /\ pc' = "exited")]_vars

\* a short write after complete records, the broken record's bytes on file
C20_Witness ==
    /\ wfail
    /\ frames_written >= 2
    /\ HeaderCount < frames_written
    /\ Len(file) > OffsetOf(emitted, frames_written + 1)

====
